---- MODULE Spec2Model ----
(***************************************************************************)
(* Image augmentors of tensorpack/dataflow/imgaug/misc.py: Flip,           *)
(* ResizeShortestEdge, RandomResize and Transpose.  A constructor is       *)
(* called once, the caller then hands one datapoint to the augmentor and   *)
(* calls _get_augment_params, _augment and _augment_coords on it.          *)
(*                                                                         *)
(* Python floats are IEEE-754 doubles.  Wherever the source computes with  *)
(* floats and the result can depend on rounding, the model computes with   *)
(* the same doubles: a non-negative double is a record [b, x] of its bits  *)
(* (least significant first) and the binary exponent of b[1], so its value *)
(* is  SUM b[i] * 2^(x+i-1)  and it carries at most 53 significant bits.   *)
(* The operators on bits split their argument in halves and bind each      *)
(* half's result as a value (CHOOSE p \in {...}), which keeps the          *)
(* evaluation shallow.                                                     *)
(***************************************************************************)
EXTENDS Integers, Sequences, FiniteSets, TLC

VARIABLES
    self,       \* the augmentor object (its attributes), NoSelf before construction
    args,       \* the arguments of the constructor call
    pc,         \* where the caller stands: new, failed, constructed, loaded, ...
    err,        \* the exception raised by the last call, "none" otherwise
    img,        \* the image the augmentor works on
    coords,     \* the coordinates paired with the image
    param,      \* Flip / Transpose: the sampled augmentation parameters
    rnd,        \* Flip / Transpose: the value _rand_range() returned
    ret,        \* resize augmentors: the ResizeTransform returned
    cnt,        \* RandomResize: rejected candidates of the running call
    destX,      \* RandomResize: last candidate width
    destY,      \* RandomResize: last candidate height
    draws,      \* RandomResize: calls of get_dest_size in the running call
    warned,     \* RandomResize: logger.warn was called in the running call
    img0,       \* the image as the caller supplied it
    coords0,    \* the coordinates as the caller supplied them
    rounds      \* completed sample/augment/augment_coords rounds on the datapoint

vars == <<self, args, pc, err, img, coords, param, rnd, ret,
          cnt, destX, destY, draws, warned, img0, coords0, rounds>>

(***************************************************************************)
(* Bounds of the model                                                     *)
(***************************************************************************)
\* ResizeShortestEdge: target sizes 1..RseMaxSize, images up to RseMaxH x RseMaxW
RseMaxSize == 13
RseMaxH == 6
RseMaxW == 27
\* Flip / Transpose: images up to MaxDim x MaxDim, at most MaxPoints points
\* with components in 0..MaxCoord; Transpose is applied at most MaxRounds
\* times in a row to a datapoint, Flip once
MaxDim == 2
MaxPoints == 1
MaxCoord == 1
MaxRounds == 2
\* random draws are the multiples of 2^-GridBits
GridBits == 2
\* RandomResize: images up to RrMaxDim x RrMaxDim
RrMaxDim == 2

(***************************************************************************)
(* IEEE-754 double arithmetic on non-negative values                       *)
(***************************************************************************)
Precision == 53

RECURSIVE Pow2(_)
Pow2(n) == IF n <= 0 THEN 1 ELSE 2 * Pow2(n - 1)

RECURSIVE BitsOf(_)
BitsOf(n) == IF n = 0 THEN <<>> ELSE <<n % 2>> \o BitsOf(n \div 2)

RECURSIVE ValOf(_)
ValOf(b) == IF b = <<>> THEN 0 ELSE Head(b) + 2 * ValOf(Tail(b))

Zeros(n) == [i \in 1..n |-> 0]

\* drop the zero bits above the most significant one
Strip(b) ==
    LET ones == {i \in 1..Len(b) : b[i] = 1}
    IN  IF ones = {} THEN <<>>
        ELSE SubSeq(b, 1, CHOOSE i \in ones : \A j \in ones : j <= i)

\* b + 1
Inc(b) ==
    LET zeros == {i \in 1..Len(b) : b[i] = 0}
    IN  IF zeros = {} THEN Zeros(Len(b)) \o <<1>>
        ELSE LET z == CHOOSE i \in zeros : \A j \in zeros : i <= j
             IN  [i \in 1..Len(b) |-> IF i < z THEN 0 ELSE IF i = z THEN 1 ELSE b[i]]

\* b * k + carry, as Len(b) bits and the carry out of them
RECURSIVE MulBits(_, _, _)
MulBits(b, k, carry) ==
    IF b = <<>> THEN [b |-> <<>>, c |-> carry]
    ELSE IF Len(b) = 1
    THEN [b |-> <<(b[1] * k + carry) % 2>>, c |-> (b[1] * k + carry) \div 2]
    ELSE CHOOSE p \in
           UNION {{[b |-> lo.b \o hi.b, c |-> hi.c] :
                      hi \in {MulBits(SubSeq(b, Len(b) \div 2 + 1, Len(b)), k, lo.c)}} :
                   lo \in {MulBits(SubSeq(b, 1, Len(b) \div 2), k, carry)}} : TRUE

MulCarry(b, k, carry) ==
    LET p == MulBits(b, k, carry) IN p.b \o BitsOf(p.c)

Dyadic(n, x) == [b |-> BitsOf(n), x |-> x]

\* round to nearest, ties to even, to Precision significant bits
RoundNearest(d) ==
    LET b == Strip(d.b)
        n == Len(b)
        k == n - Precision
    IN  IF k <= 0 THEN [b |-> b, x |-> d.x]
        ELSE LET kept   == SubSeq(b, k + 1, n)
                 guard  == b[k]
                 sticky == \E i \in 1..(k - 1) : b[i] = 1
                 up     == guard = 1 /\ (sticky \/ kept[1] = 1)
             IN  [b |-> IF up THEN Inc(kept) ELSE kept, x |-> d.x + k]

\* the double  d * k  for a small non-negative integer k
FMulInt(d, k) == RoundNearest([b |-> MulCarry(d.b, k, 0), x |-> d.x])

\* e with  2^e <= a/b < 2^(e+1),  for integers a, b >= 1
RECURSIVE Log2Floor(_, _)
Log2Floor(a, b) == IF a >= 2 * b THEN 1 + Log2Floor(a, 2 * b)
                   ELSE IF a < b THEN Log2Floor(2 * a, b) - 1
                   ELSE 0

\* n further quotient bits of r / D (r < D) and the remainder left
RECURSIVE LongDiv(_, _, _)
LongDiv(r, D, n) ==
    IF n = 0 THEN [q |-> <<>>, r |-> r]
    ELSE IF n = 1
    THEN IF 2 * r >= D THEN [q |-> <<1>>, r |-> 2 * r - D]
         ELSE [q |-> <<0>>, r |-> 2 * r]
    ELSE CHOOSE p \in
           UNION {{[q |-> lo.q \o hi.q, r |-> lo.r] :
                      lo \in {LongDiv(hi.r, D, n - n \div 2)}} :
                   hi \in {LongDiv(r, D, n \div 2)}} : TRUE

\* the double  a / b  for small integers a >= 0, b >= 1
FDivInt(a, b) ==
    IF a = 0 THEN [b |-> <<>>, x |-> 0]
    ELSE LET e  == Log2Floor(a, b)
             N  == IF e < 0 THEN a * Pow2(-e) ELSE a
             D  == IF e > 0 THEN b * Pow2(e) ELSE b
             dv == LongDiv(N - D, D, Precision - 1)
             qr == [q |-> dv.q \o <<1>>, r |-> dv.r]
             up == 2 * qr.r > D \/ (2 * qr.r = D /\ qr.q[1] = 1)
         IN  [b |-> IF up THEN Inc(qr.q) ELSE qr.q, x |-> e - (Precision - 1)]

\* the double  d + 0.5
FAddHalf(d) ==
    LET b == Strip(d.b)
        p == -(d.x)     \* index in b of the bit of weight 2^-1
        s == IF b = <<>> THEN [b |-> <<1>>, x |-> -1]
             ELSE IF p <= 0 THEN [b |-> Inc(Zeros(1 - p) \o b), x |-> -1]
             ELSE IF p > Len(b) THEN [b |-> b \o Zeros(p - 1 - Len(b)) \o <<1>>, x |-> d.x]
             ELSE [b |-> SubSeq(b, 1, p - 1) \o Inc(SubSeq(b, p, Len(b))), x |-> d.x]
    IN  RoundNearest(s)

\* Python int() of a non-negative double: truncation
FInt(d) ==
    LET b == Strip(d.b)
    IN  IF d.x >= 0 THEN ValOf(b) * Pow2(d.x)
        ELSE IF -(d.x) >= Len(b) THEN 0
        ELSE ValOf(SubSeq(b, 1 - d.x, Len(b)))

Min(a, b) == IF a < b THEN a ELSE b

Den == Pow2(GridBits)

(***************************************************************************)
(* Values shared by the augmentors                                         *)
(***************************************************************************)
INTER_LINEAR == "INTER_LINEAR"

NoSelf == [cls |-> "none"]
NoArgs == [cls |-> "none"]
NoImg == [h |-> 0, w |-> 0, ch |-> 0, px |-> <<>>]
NoRet == [srcH |-> 0, srcW |-> 0, dstH |-> 0, dstW |-> 0, interp |-> "none"]
NoParam == [do |-> FALSE, h |-> 0, w |-> 0]

\* An image is its shape (h, w), its channel axis (ch = 0: a 2-D array,
\* ch >= 1: a 3-D array with ch channels) and its pixels px[r][c]; a pixel is
\* named by the place it had in the image the caller supplied.
Image(h, w, ch) ==
    [h |-> h, w |-> w, ch |-> ch,
     px |-> [r \in 1..h |-> [c \in 1..w |-> <<r, c>>]]]

ndim(image) == IF image.ch = 0 THEN 2 ELSE 3

\* ImageAugmentor._rand_range(low, high): a uniform draw from [low, high),
\* in units of 2^-GridBits
RandRange(low, high) == IF low = high THEN {low} ELSE low..(high - 1)

\* _rand_range() with the defaults low = 0.0, high = 1.0
RandUnit == RandRange(0, Den)

ResizeTransform(h, w, newh, neww, interp) ==
    [srcH |-> h, srcW |-> w, dstH |-> newh, dstW |-> neww, interp |-> interp]

Init ==
    /\ self = NoSelf
    /\ args = NoArgs
    /\ pc = "new"
    /\ err = "none"
    /\ img = NoImg
    /\ coords = <<>>
    /\ param = NoParam
    /\ rnd = 0
    /\ ret = NoRet
    /\ cnt = 0
    /\ destX = 0
    /\ destY = 0
    /\ draws = 0
    /\ warned = FALSE
    /\ img0 = NoImg
    /\ coords0 = <<>>
    /\ rounds = 0

\* the caller hands a datapoint (image and coordinates) to the augmentor
Load(image, cs) ==
    /\ pc = "constructed"
    /\ img' = image
    /\ img0' = image
    /\ coords' = cs
    /\ coords0' = cs
    /\ rounds' = 0
    /\ pc' = "loaded"
    /\ UNCHANGED <<self, args, err, param, rnd, ret, cnt, destX, destY, draws, warned>>

Points == (0..MaxCoord) \X (0..MaxCoord)

CoordSets == UNION {[1..n -> Points] : n \in 0..MaxPoints}

Channels == {0, 1, 3}

Images == {Image(h, w, ch) : h \in 1..MaxDim, w \in 1..MaxDim, ch \in Channels}

Probs == {0, 1, Den}

(***************************************************************************)
(* Flip                                                                    *)
(***************************************************************************)
\* Flip.__init__ without the check of horiz and vert both set
FlipCode_mut(horiz, vert) ==
    IF horiz THEN [err |-> "none", code |-> 1]
    ELSE IF vert THEN [err |-> "none", code |-> 0]
    ELSE [err |-> "ValueError", code |-> -1]

\* the branches of Flip.__init__: the flip code, or the error raised
FlipCode(horiz, vert) ==
    IF horiz /\ vert THEN [err |-> "ValueError", code |-> -1]
    ELSE IF horiz THEN [err |-> "none", code |-> 1]
    ELSE IF vert THEN [err |-> "none", code |-> 0]
    ELSE [err |-> "ValueError", code |-> -1]

Flip_init(horiz, vert, prob) ==
    /\ pc = "new"
    /\ args' = [cls |-> "Flip", horiz |-> horiz, vert |-> vert, prob |-> prob]
    /\ LET c == FlipCode(horiz, vert)
       IN  IF c.err = "none"
           THEN /\ self' = [cls |-> "Flip", horiz |-> horiz, vert |-> vert,
                            prob |-> prob, code |-> c.code]
                /\ pc' = "constructed"
                /\ err' = "none"
           ELSE /\ self' = NoSelf
                /\ pc' = "failed"
                /\ err' = c.err
    /\ UNCHANGED <<img, coords, param, rnd, ret, cnt, destX, destY, draws,
                   warned, img0, coords0, rounds>>

Flip_get_augment_params(r) ==
    /\ self.cls = "Flip"
    /\ pc = "loaded"
    /\ rnd' = r
    /\ param' = [do |-> r < self.prob, h |-> img.h, w |-> img.w]
    /\ pc' = "sampled"
    /\ UNCHANGED <<self, args, err, img, coords, ret, cnt, destX, destY, draws,
                   warned, img0, coords0, rounds>>

\* cv2.flip(img, code): code 1 mirrors the columns, code 0 the rows; OpenCV
\* returns a 2-D array for a single-channel 3-D input
cv2_flip(image, code) ==
    [h |-> image.h, w |-> image.w,
     ch |-> IF image.ch = 1 THEN 0 ELSE image.ch,
     px |-> [r \in 1..image.h |-> [c \in 1..image.w |->
               IF code = 1 THEN image.px[r][image.w + 1 - c]
               ELSE image.px[image.h + 1 - r][c]]]]

\* ret[:, :, np.newaxis] when img.ndim == 3 and ret.ndim == 2
Reinstate(image, out) ==
    IF ndim(image) = 3 /\ ndim(out) = 2 THEN [out EXCEPT !.ch = 1] ELSE out

Flip_augment_image(image, p, code) ==
    IF p.do THEN Reinstate(image, cv2_flip(image, code)) ELSE image

Flip_augment ==
    /\ self.cls = "Flip"
    /\ pc = "sampled"
    /\ img' = Flip_augment_image(img, param, self.code)
    /\ pc' = "augmented"
    /\ UNCHANGED <<self, args, err, coords, param, rnd, ret, cnt, destX, destY,
                   draws, warned, img0, coords0, rounds>>

\* _augment_coords with h and w taken for each other
Flip_coords_mut(cs, p, code) ==
    IF p.do
    THEN IF code = 0 THEN [i \in DOMAIN cs |-> <<cs[i][1], p.w - cs[i][2]>>]
         ELSE IF code = 1 THEN [i \in DOMAIN cs |-> <<p.h - cs[i][1], cs[i][2]>>]
         ELSE cs
    ELSE cs

Flip_coords(cs, p, code) ==
    IF p.do
    THEN IF code = 0 THEN [i \in DOMAIN cs |-> <<cs[i][1], p.h - cs[i][2]>>]
         ELSE IF code = 1 THEN [i \in DOMAIN cs |-> <<p.w - cs[i][1], cs[i][2]>>]
         ELSE cs
    ELSE cs

Flip_augment_coords ==
    /\ self.cls = "Flip"
    /\ pc = "augmented"
    /\ coords' = Flip_coords(coords, param, self.code)
    /\ rounds' = rounds + 1
    /\ pc' = "done"
    /\ UNCHANGED <<self, args, err, img, param, rnd, ret, cnt, destX, destY,
                   draws, warned, img0, coords0>>

NextFlip ==
    \/ \E horiz \in BOOLEAN, vert \in BOOLEAN, prob \in Probs : Flip_init(horiz, vert, prob)
    \/ \E image \in Images, cs \in CoordSets : Load(image, cs)
    \/ \E r \in RandUnit : Flip_get_augment_params(r)
    \/ Flip_augment
    \/ Flip_augment_coords

SpecFlip == Init /\ [][NextFlip]_vars

(***************************************************************************)
(* Transpose                                                               *)
(***************************************************************************)
Transpose_init(prob) ==
    /\ pc = "new"
    /\ args' = [cls |-> "Transpose", prob |-> prob]
    /\ self' = [cls |-> "Transpose", prob |-> prob]
    /\ pc' = "constructed"
    /\ UNCHANGED <<err, img, coords, param, rnd, ret, cnt, destX, destY, draws,
                   warned, img0, coords0, rounds>>

Transpose_get_augment_params(r) ==
    /\ self.cls = "Transpose"
    /\ \/ pc = "loaded"
       \/ pc = "done" /\ rounds < MaxRounds
    /\ rnd' = r
    /\ param' = [do |-> r < self.prob, h |-> 0, w |-> 0]
    /\ pc' = "sampled"
    /\ UNCHANGED <<self, args, err, img, coords, ret, cnt, destX, destY, draws,
                   warned, img0, coords0, rounds>>

\* cv2.transpose(img): the rows become the columns; OpenCV returns a 2-D
\* array for a single-channel 3-D input
cv2_transpose(image) ==
    [h |-> image.w, w |-> image.h,
     ch |-> IF image.ch = 1 THEN 0 ELSE image.ch,
     px |-> [r \in 1..image.w |-> [c \in 1..image.h |-> image.px[c][r]]]]

\* Transpose._augment without reinstating the channel axis
Transpose_augment_image_mut(image, do) ==
    IF do THEN cv2_transpose(image) ELSE image

Transpose_augment_image(image, do) ==
    IF do THEN Reinstate(image, cv2_transpose(image)) ELSE image

Transpose_augment ==
    /\ self.cls = "Transpose"
    /\ pc = "sampled"
    /\ img' = Transpose_augment_image(img, param.do)
    /\ pc' = "augmented"
    /\ UNCHANGED <<self, args, err, coords, param, rnd, ret, cnt, destX, destY,
                   draws, warned, img0, coords0, rounds>>

\* coords[:, ::-1]
Transpose_coords(cs, do) ==
    IF do THEN [i \in DOMAIN cs |-> <<cs[i][2], cs[i][1]>>] ELSE cs

Transpose_augment_coords ==
    /\ self.cls = "Transpose"
    /\ pc = "augmented"
    /\ coords' = Transpose_coords(coords, param.do)
    /\ rounds' = rounds + 1
    /\ pc' = "done"
    /\ UNCHANGED <<self, args, err, img, param, rnd, ret, cnt, destX, destY,
                   draws, warned, img0, coords0>>

NextTranspose ==
    \/ \E prob \in Probs : Transpose_init(prob)
    \/ \E image \in Images, cs \in CoordSets : Load(image, cs)
    \/ \E r \in RandUnit : Transpose_get_augment_params(r)
    \/ Transpose_augment
    \/ Transpose_augment_coords

SpecTranspose == Init /\ [][NextTranspose]_vars

(***************************************************************************)
(* ResizeShortestEdge                                                      *)
(***************************************************************************)
ResizeShortestEdge_init(size) ==
    /\ pc = "new"
    /\ args' = [cls |-> "ResizeShortestEdge", size |-> size]
    /\ self' = [cls |-> "ResizeShortestEdge", size |-> size, interp |-> INTER_LINEAR]
    /\ pc' = "constructed"
    /\ UNCHANGED <<err, img, coords, param, rnd, ret, cnt, destX, destY, draws,
                   warned, img0, coords0, rounds>>

\* int(scale * x + 0.5)  with  scale = size * 1.0 / min(h, w)
RseScaled(size, m, x) == FInt(FAddHalf(FMulInt(FDivInt(size, m), x)))

RseNewShape(size, h, w) ==
    IF h < w THEN <<size, RseScaled(size, Min(h, w), w)>>
    ELSE <<RseScaled(size, Min(h, w), h), size>>

ResizeShortestEdge_get_augment_params ==
    /\ self.cls = "ResizeShortestEdge"
    /\ pc \in {"loaded", "returned"}
    /\ LET new == RseNewShape(self.size, img.h, img.w)
       IN  ret' = ResizeTransform(img.h, img.w, new[1], new[2], self.interp)
    /\ pc' = "returned"
    /\ UNCHANGED <<self, args, err, img, coords, param, rnd, cnt, destX, destY,
                   draws, warned, img0, coords0, rounds>>

RseImages == {Image(h, w, 3) : h \in 1..RseMaxH, w \in 1..RseMaxW}

NextRSE ==
    \/ \E size \in 1..RseMaxSize : ResizeShortestEdge_init(size)
    \/ \E image \in RseImages : Load(image, <<>>)
    \/ ResizeShortestEdge_get_augment_params

SpecRSE == Init /\ [][NextRSE]_vars

(***************************************************************************)
(* RandomResize                                                            *)
(***************************************************************************)
MaxAttempts == 50

\* aspect_ratio_thres is held in units of 1e-5, so that  thres + 1e-5  is
\* (thres + 1) units
ThresUnit == 100000

\* A range is a (min, max) tuple or None.  lo and hi are in units of
\* 2^-GridBits; float tells is_float(tp), i.e. whether an end is a float.
NoneRange == [none |-> TRUE, lo |-> 0, hi |-> 0, float |-> FALSE]
FloatRange(lo, hi) == [none |-> FALSE, lo |-> lo, hi |-> hi, float |-> TRUE]
IntRange(lo, hi) == [none |-> FALSE, lo |-> lo * Den, hi |-> hi * Den, float |-> FALSE]

\* xrange == yrange on tuples compares the values
SameRange(a, b) == ~a.none /\ ~b.none /\ a.lo = b.lo /\ a.hi = b.hi

\* the assertions of RandomResize.__init__
RandomResize_check(xrange, yrange, aspect_ratio_thres) ==
    IF ~(aspect_ratio_thres >= 0) THEN "AssertionError"
    ELSE IF ~yrange.none /\ xrange.float # yrange.float THEN "AssertionError"
    ELSE IF aspect_ratio_thres = 0 /\ xrange.float
            /\ ~(SameRange(xrange, yrange) \/ yrange.none) THEN "AssertionError"
    ELSE "none"

RandomResize_init(xrange, yrange, minimum, aspect_ratio_thres) ==
    /\ pc = "new"
    /\ args' = [cls |-> "RandomResize", xrange |-> xrange, yrange |-> yrange,
                minimum |-> minimum, aspect_ratio_thres |-> aspect_ratio_thres]
    /\ LET e == RandomResize_check(xrange, yrange, aspect_ratio_thres)
       IN  IF e = "none"
           THEN /\ self' = [cls |-> "RandomResize", xrange |-> xrange,
                            yrange |-> yrange, minimum |-> minimum,
                            aspect_ratio_thres |-> aspect_ratio_thres,
                            interp |-> INTER_LINEAR, is_scale |-> xrange.float]
                /\ pc' = "constructed"
                /\ err' = "none"
                /\ warned' = (aspect_ratio_thres = 0 /\ ~xrange.float /\ ~yrange.none)
           ELSE /\ self' = NoSelf
                /\ pc' = "failed"
                /\ err' = e
                /\ warned' = FALSE
    /\ UNCHANGED <<img, coords, param, rnd, ret, cnt, destX, destY, draws,
                   img0, coords0, rounds>>

\* Python max(d, m) of a double d >= 0 and an integer m: m when m > d
FMaxInt(d, m) == IF m > FInt(d) THEN Dyadic(m, 0) ELSE d

\* the double  (n * 2^-g) / k
FDivGrid(n, g, k) == LET q == FDivInt(n, k) IN [b |-> q.b, x |-> q.x - g]

\* get_dest_size() with  sy = sx * 1.0 / h * w  in pixel mode
get_dest_size_mut(s, h, w, sx, sy) ==
    LET fx == Dyadic(sx, -GridBits)
        fy == IF s.is_scale
              THEN IF s.aspect_ratio_thres = 0 THEN fx ELSE Dyadic(sy, -GridBits)
              ELSE IF s.aspect_ratio_thres = 0
                   THEN FMulInt(FDivGrid(sx, GridBits, h), w)
                   ELSE Dyadic(sy, -GridBits)
        dX == IF s.is_scale THEN FMaxInt(FMulInt(fx, w), s.minimum[1])
              ELSE FMaxInt(fx, s.minimum[1])
        dY == IF s.is_scale THEN FMaxInt(FMulInt(fy, h), s.minimum[2])
              ELSE FMaxInt(fy, s.minimum[2])
    IN  <<FInt(FAddHalf(dX)), FInt(FAddHalf(dY))>>

\* get_dest_size() for the draws sx and sy (sy is read only where the code
\* draws it); the result is (destX, destY)
get_dest_size(s, h, w, sx, sy) ==
    LET fx == Dyadic(sx, -GridBits)
        fy == IF s.is_scale
              THEN IF s.aspect_ratio_thres = 0 THEN fx ELSE Dyadic(sy, -GridBits)
              ELSE IF s.aspect_ratio_thres = 0
                   THEN FMulInt(FDivGrid(sx, GridBits, w), h)
                   ELSE Dyadic(sy, -GridBits)
        dX == IF s.is_scale THEN FMaxInt(FMulInt(fx, w), s.minimum[1])
              ELSE FMaxInt(fx, s.minimum[1])
        dY == IF s.is_scale THEN FMaxInt(FMulInt(fy, h), s.minimum[2])
              ELSE FMaxInt(fy, s.minimum[2])
    IN  <<FInt(FAddHalf(dX)), FInt(FAddHalf(dY))>>

Abs(n) == IF n < 0 THEN -n ELSE n

\* the rejection test with the comparison turned round
Rejected_mut(thres, h, w, dX, dY) ==
    Abs(dX * h - w * dY) * ThresUnit < (thres + 1) * w * dY

\* diff >= self.aspect_ratio_thres + 1e-5  with  diff = abs(newr - oldr) / oldr,
\* oldr = w / h,  newr = dX / dY  (dY # 0), by cross-multiplication.  Within
\* the bounds of the model the two sides are either equal as rationals or
\* differ by more than 1e-8, far above the rounding error of the doubles.
Rejected(thres, h, w, dX, dY) ==
    Abs(dX * h - w * dY) * ThresUnit >= (thres + 1) * w * dY

\* cnt >= 50
Exhausted_mut(c) == c >= MaxAttempts

\* cnt > 50
Exhausted(c) == c > MaxAttempts

\* cnt = 0; h, w = img.shape[:2]
RandomResize_get_augment_params ==
    /\ self.cls = "RandomResize"
    /\ pc \in {"loaded", "returned", "raised"}
    /\ cnt' = 0
    /\ draws' = 0
    /\ warned' = FALSE
    /\ err' = "none"
    /\ ret' = NoRet
    /\ destX' = 0
    /\ destY' = 0
    /\ pc' = "sampling"
    /\ UNCHANGED <<self, args, img, coords, param, rnd, img0, coords0, rounds>>

RandomResize_raise(e) ==
    /\ pc' = "raised"
    /\ err' = e
    /\ UNCHANGED <<ret, cnt, warned>>

\* one pass of the  while True  loop with the draws sx, sy
RandomResize_loop(sx, sy) ==
    /\ self.cls = "RandomResize"
    /\ pc = "sampling"
    /\ draws' = draws + 1
    /\ UNCHANGED <<self, args, img, coords, param, rnd, img0, coords0, rounds>>
    /\ IF self.aspect_ratio_thres # 0 /\ self.yrange.none
       THEN \* self._rand_range(*self.yrange) with yrange None
            /\ RandomResize_raise("TypeError")
            /\ UNCHANGED <<destX, destY>>
       ELSE LET d == get_dest_size(self, img.h, img.w, sx, sy)
                h == img.h
                w == img.w
            IN  /\ destX' = d[1]
                /\ destY' = d[2]
                /\ IF self.aspect_ratio_thres > 0
                   THEN IF d[2] = 0
                        THEN \* newr = destX * 1.0 / destY
                             RandomResize_raise("ZeroDivisionError")
                        ELSE IF Rejected(self.aspect_ratio_thres, h, w, d[1], d[2])
                        THEN /\ cnt' = cnt + 1
                             /\ err' = "none"
                             /\ IF Exhausted(cnt + 1)
                                THEN /\ warned' = TRUE
                                     /\ ret' = ResizeTransform(h, w, h, w, self.interp)
                                     /\ pc' = "returned"
                                ELSE UNCHANGED <<warned, ret, pc>>
                        ELSE /\ ret' = ResizeTransform(h, w, d[2], d[1], self.interp)
                             /\ pc' = "returned"
                             /\ UNCHANGED <<cnt, err, warned>>
                   ELSE /\ ret' = ResizeTransform(h, w, d[2], d[1], self.interp)
                        /\ pc' = "returned"
                        /\ UNCHANGED <<cnt, err, warned>>

ScaleA == FloatRange(Den \div 4, Den)
ScaleB == FloatRange(Den, Den)
PixelA == IntRange(1, 2)

XRanges == {ScaleA, ScaleB, PixelA}
YRanges == {NoneRange, ScaleA, ScaleB, PixelA}
Minimums == {<<0, 0>>, <<2, 1>>}
Thresholds == {-15000, 0, 15000}

RrImages == {Image(h, w, 3) : h \in 1..RrMaxDim, w \in 1..RrMaxDim}

\* the draws of one pass: sx from xrange, sy from yrange where the code draws it
NextRR ==
    \/ \E xr \in XRanges, yr \in YRanges, mn \in Minimums, th \in Thresholds :
          RandomResize_init(xr, yr, mn, th)
    \/ \E image \in RrImages : Load(image, <<>>)
    \/ RandomResize_get_augment_params
    \/ /\ self.cls = "RandomResize"
       /\ \E sx \in RandRange(self.xrange.lo, self.xrange.hi) :
             IF self.aspect_ratio_thres = 0 \/ self.yrange.none
             THEN RandomResize_loop(sx, sx)
             ELSE \E sy \in RandRange(self.yrange.lo, self.yrange.hi) :
                     RandomResize_loop(sx, sy)

SpecRR == Init /\ [][NextRR]_vars

(***************************************************************************)
(* Properties                                                              *)
(***************************************************************************)
IsRR == self.cls = "RandomResize"
Identity(t) == t.dstH = t.srcH /\ t.dstW = t.srcW
FromImage(t) == t.srcH = img.h /\ t.srcW = img.w

\* C1 as stated: sampling is abandoned at the 50th rejection: no call draws
\* a 51st candidate, and the warning is given when cnt is 50.
C1_AbandonAt50 ==
    IsRR => /\ draws <= MaxAttempts
            /\ (pc = "returned" /\ warned) => cnt = MaxAttempts

\* C1 amended: the loop goes on while cnt <= 50; the 51st rejection gives the
\* warning and returns the identity-size transform, and no 52nd candidate is
\* drawn.
C1_AbandonAt51 ==
    IsRR => /\ draws <= MaxAttempts + 1
            /\ cnt <= MaxAttempts + 1
            /\ pc = "sampling" => (cnt <= MaxAttempts /\ ~warned /\ draws = cnt)
            /\ (pc = "returned" /\ warned) =>
                  (cnt = MaxAttempts + 1 /\ draws = MaxAttempts + 1)
            /\ (pc = "returned" /\ cnt = MaxAttempts + 1) =>
                  (warned /\ Identity(ret) /\ FromImage(ret))

C1_Witness ==
    /\ IsRR /\ pc = "returned" /\ warned
    /\ cnt = MaxAttempts + 1 /\ draws = MaxAttempts + 1
    /\ Identity(ret)

\* C2: with aspect_ratio_thres > 0 every transform returned, accepted
\* candidate or fallback, has  |dstW/dstH - w/h| / (w/h) < thres + 1e-5.
C2_ReturnedWithinThreshold ==
    (IsRR /\ self.aspect_ratio_thres > 0 /\ pc = "returned") =>
        /\ ret.dstH > 0
        /\ Abs(ret.dstW * img.h - img.w * ret.dstH) * ThresUnit
              < (self.aspect_ratio_thres + 1) * img.w * ret.dstH

\* an accepted candidate that resizes the image
C2_Witness ==
    /\ IsRR /\ self.aspect_ratio_thres > 0 /\ pc = "returned"
    /\ ~warned /\ cnt > 0 /\ ~Identity(ret)

\* C3: a RandomResize that was constructed never fails in sample_parameters
\* because of its configuration (here: yrange None with aspect_ratio_thres > 0
\* is unpacked by get_dest_size).
C3_FailFast ==
    (IsRR /\ pc = "raised") => err # "TypeError"

\* C4: Flip construction succeeds exactly when one of horiz, vert is set; it
\* raises the configuration error otherwise, and on success the code is 1 for
\* horiz and 0 for vert.
C4_FlipConstruction ==
    args.cls = "Flip" =>
        /\ (pc # "failed") <=> (args.horiz # args.vert)
        /\ pc = "failed" => (err = "ValueError" /\ self = NoSelf)
        /\ pc # "failed" =>
              /\ self.cls = "Flip"
              /\ self.code = (IF args.horiz THEN 1 ELSE 0)
              /\ args.vert => self.code = 0

C4_Witness ==
    /\ args.cls = "Flip" /\ args.horiz /\ args.vert
    /\ pc = "failed" /\ err = "ValueError"

\* C5: after one round of Flip the decision is  rnd < prob,  the recorded
\* height and width are the image's, and image and coordinates follow the same
\* decision: a horizontal flip sends (x, y) to (w - x, y) and mirrors the
\* columns, a vertical flip sends (x, y) to (x, h - y) and mirrors the rows;
\* otherwise both are unchanged.
C5_FlipConsistent ==
    (self.cls = "Flip" /\ pc = "done" /\ rounds = 1) =>
        /\ param.do <=> (rnd < self.prob)
        /\ self.prob = 0 => ~param.do
        /\ self.prob = Den => param.do
        /\ param.h = img0.h /\ param.w = img0.w
        /\ Len(coords) = Len(coords0)
        /\ img.h = img0.h /\ img.w = img0.w /\ img.ch = img0.ch
        /\ IF param.do
           THEN IF self.horiz
                THEN /\ \A i \in DOMAIN coords :
                          coords[i] = <<img0.w - coords0[i][1], coords0[i][2]>>
                     /\ \A r \in 1..img.h, c \in 1..img.w :
                          img.px[r][c] = img0.px[r][img0.w + 1 - c]
                ELSE /\ \A i \in DOMAIN coords :
                          coords[i] = <<coords0[i][1], img0.h - coords0[i][2]>>
                     /\ \A r \in 1..img.h, c \in 1..img.w :
                          img.px[r][c] = img0.px[img0.h + 1 - r][c]
           ELSE img = img0 /\ coords = coords0

\* a vertical flip that was applied to a non-square image with a point
C5_Witness ==
    /\ self.cls = "Flip" /\ pc = "done" /\ rounds = 1
    /\ self.vert /\ param.do /\ img0.h # img0.w /\ Len(coords0) > 0
    /\ coords # coords0

\* C6: with prob = 1.0 one Transpose sends every point (x, y) to (y, x) and the
\* image to its transpose, and two of them give back the image and the
\* coordinates.
C6_TransposeInvolution ==
    (self.cls = "Transpose" /\ self.prob = Den /\ pc = "done") =>
        IF rounds % 2 = 1
        THEN /\ Len(coords) = Len(coords0)
             /\ \A i \in DOMAIN coords :
                   coords[i] = <<coords0[i][2], coords0[i][1]>>
             /\ img.h = img0.w /\ img.w = img0.h /\ img.ch = img0.ch
             /\ \A r \in 1..img.h, c \in 1..img.w : img.px[r][c] = img0.px[c][r]
        ELSE img = img0 /\ coords = coords0

\* two rounds on a non-square single-channel image with a point off the diagonal
C6_Witness ==
    /\ self.cls = "Transpose" /\ self.prob = Den /\ pc = "done" /\ rounds = 2
    /\ img0.h # img0.w /\ img0.ch = 1
    /\ \E i \in DOMAIN coords0 : coords0[i][1] # coords0[i][2]
    /\ img = img0 /\ coords = coords0

\* C7: ResizeShortestEdge returns source (h, w), gives size to the smaller
\* side and  floor(size * other / min(h, w) + 0.5)  to the other, so that
\* min(dstH, dstW) = size.
C7_ShortestEdge ==
    (self.cls = "ResizeShortestEdge" /\ pc = "returned") =>
        /\ FromImage(ret)
        /\ img.h < img.w =>
              /\ ret.dstH = self.size
              /\ ret.dstW = (2 * self.size * img.w + img.h) \div (2 * img.h)
        /\ img.h >= img.w =>
              /\ ret.dstW = self.size
              /\ ret.dstH = (2 * self.size * img.h + img.w) \div (2 * img.w)
        /\ Min(ret.dstH, ret.dstW) = self.size

\* C8 as stated: with aspect_ratio_thres = 0 the returned size has exactly the
\* aspect ratio of the image.
C8_ExactAspectRatio ==
    (IsRR /\ self.aspect_ratio_thres = 0 /\ pc = "returned") =>
        ret.dstW * img.h = ret.dstH * img.w

\* C8 amended: with aspect_ratio_thres = 0 the size comes from a single draw
\* with no retry, and with minimum = (0, 0) it has the aspect ratio of the
\* image up to the rounding of each side:  2 * |dstW * h - dstH * w| <= h + w.
C8_AspectRatioUpToRounding ==
    (IsRR /\ self.aspect_ratio_thres = 0) =>
        /\ pc = "sampling" => draws = 0
        /\ pc = "returned" =>
              /\ draws = 1 /\ cnt = 0 /\ ~warned
              /\ FromImage(ret) /\ ret.dstW = destX /\ ret.dstH = destY
              /\ self.minimum = <<0, 0>> =>
                    2 * Abs(ret.dstW * img.h - ret.dstH * img.w) <= img.h + img.w

\* a size returned in pixel mode whose aspect ratio is not the image's
C8_Witness ==
    /\ IsRR /\ self.aspect_ratio_thres = 0 /\ pc = "returned"
    /\ ~self.is_scale /\ self.minimum = <<0, 0>>
    /\ ret.dstW * img.h # ret.dstH * img.w

\* C9: every call of RandomResize.sample_parameters ends by returning a
\* transform with source (h, w) after a bounded number of draws, and never by
\* raising.
C9_ReturnsNeverRaises ==
    IsRR => /\ pc # "raised"
            /\ draws <= MaxAttempts + 1
            /\ pc = "returned" => FromImage(ret)

\* C10: every candidate size computed and every transform returned by
\* RandomResize has destX >= 1 and destY >= 1.
C10_PositiveSizes ==
    (IsRR /\ draws >= 1 /\ err # "TypeError") =>
        /\ destX >= 1 /\ destY >= 1
        /\ pc = "returned" => (ret.dstW >= 1 /\ ret.dstH >= 1)

====
